---- MODULE Spec2Model ----
(***************************************************************************)
(* PhoenixHandler (mindsdb/integrations/handlers/phoenix_handler):         *)
(* connection lifecycle and query execution against a driver whose calls   *)
(* may raise.                                                              *)
(*                                                                         *)
(* The handler is single-threaded and synchronous, so every public method  *)
(* is one atomic action.  A method is written as an operator from the      *)
(* handler/driver state before the call to the state after it; the         *)
(* operator threads a record  s  through the statements of the method in   *)
(* source order.  s.exc is the text of the exception in flight (NoExc when *)
(* none), so a statement after a raising one is skipped exactly as Python  *)
(* skips it.                                                               *)
(*                                                                         *)
(* Driver: opening a connection yields a fresh handle; a driver call that  *)
(* raises has no effect on the driver's objects (phoenixdb marks a         *)
(* connection or cursor closed only after the close request succeeded).    *)
(***************************************************************************)
EXTENDS Integers, Sequences, FiniteSets, TLC

\* ------------------------------------------------------------------ bounds
MaxHandles == 2        \* connections the driver opens in one behaviour
MaxCloseFaults == 1    \* close() calls (connection or cursor) that raise in one behaviour

\* ------------------------------------------------------------- vocabulary
NoExc == ""            \* no exception in flight
None == "None"         \* Python's None where a string is expected
NoHandle == 0          \* self.connection = None

\* exception texts the driver raises with (str(e) is this text)
Msgs == {"e1", "e2"}

\* the driver calls a handler method can make
Steps == {"open", "cursor", "execute", "fetchall", "commit", "cursor_close", "close"}

\* driver-reported cursor.description: (name, type token) per column
Descriptions ==
    { << <<"id", "INTEGER">>, <<"name", "VARCHAR">> >>,
      << <<"name", "VARCHAR">>, <<"id", "INTEGER">> >> }

\* what fetchall() can return: no row, one row, two rows in either order
RowSets ==
    { <<>>,
      << <<"1", "a">> >>,
      << <<"1", "a">>, <<"2", "b">> >>,
      << <<"2", "b">>, <<"1", "a">> >> }

\* the statement get_tables sends, and a statement of the caller's
CatalogQuery == "SELECT DISTINCT TABLE_NAME, TABLE_SCHEM FROM SYSTEM.CATALOG"
Statement == "statement"

\* what the driver reports for the catalog statement: (table name, schema) rows
CatalogDescription == << <<"TABLE_NAME", "VARCHAR">>, <<"TABLE_SCHEM", "VARCHAR">> >>

CatalogRowSets ==
    { <<>>,
      << <<"T1", "SYSTEM">> >>,
      << <<"T1", "SYSTEM">>, <<"T2", "APP">> >>,
      << <<"T2", "APP">>, <<"T1", "SYSTEM">> >>,
      << <<"T3", "APP">>, <<"T2", "APP">> >> }

\* the result sets and metadata the driver can report for a statement
RowSetsOf(query) == IF query = CatalogQuery THEN CatalogRowSets ELSE RowSets
DescriptionsOf(query) == IF query = CatalogQuery THEN {CatalogDescription} ELSE Descriptions

\* optional_parameters of __init__, and the keys connect() reads
optional_parameters ==
    {"max_retries", "autocommit", "auth", "authentication", "avatica_user",
     "avatica_password", "user", "password"}
ConnectArgs == {"url"} \cup optional_parameters

\* the connection_data mapping a caller constructs a handler with
connection_args_example ==
    [k \in {"url", "autocommit"} |-> IF k = "url" THEN "http://127.0.0.1:8765" ELSE "True"]

Configs == {connection_args_example}

\* __init__: every optional parameter the mapping lacks is set to None in it
init_connection_data(data) ==
    [k \in DOMAIN data \cup optional_parameters |->
        IF k \in DOMAIN data THEN data[k] ELSE None]

NoCalls == [st \in Steps |-> 0]
NoTexts == [st \in Steps |-> NoExc]

\* the value a handler method returns (kind "raise": it raised instead)
NoRet ==
    [kind |-> "none", flag |-> FALSE, handle |-> NoHandle, type |-> None,
     error_message |-> None, columns |-> <<>>, rows |-> <<>>]

\* ------------------------------------------------------------------ state
VARIABLES
    connection,     \* self.connection: index into handles, NoHandle for None
    is_connected,   \* self.is_connected
    handles,        \* every connection the driver opened: [open, closeCalls]
    openCursors,    \* cursors created and not closed
    last,           \* the handler call that just ended, as its caller saw it
    connection_data,\* self.connection_data: the very dict the caller passed in
    supplied        \* that dict as it was when the caller passed it

vars == <<connection, is_connected, handles, openCursors, last, connection_data, supplied>>

\* the record threaded through one handler call: the handler's fields, the
\* driver's objects, the method's locals (need_to_close, response), the
\* exception in flight and the value returned
Enter ==
    [connection |-> connection, is_connected |-> is_connected,
     handles |-> handles, openCursors |-> openCursors,
     need_to_close |-> FALSE, response |-> NoRet, query |-> Statement,
     calls |-> NoCalls, texts |-> NoTexts, exc |-> NoExc, ret |-> NoRet,
     description |-> <<>>, fetched |-> <<>>]

Raised(s) == s.exc # NoExc

\* Every statement maps the set S of ways the call can have gone so far to
\* the set of ways it can have gone after the statement.  The outcomes in
\* which an exception is in flight skip the statement.
Stopped(S) == {s \in S : Raised(s)}
Running(S) == {s \in S : ~Raised(s)}

\* one driver call, counted: it returns, or it raises with some text
Call(S, st) ==
    LET made == {[s EXCEPT !.calls[st] = @ + 1] : s \in Running(S)}
    IN  Stopped(S) \cup made
        \cup {[c EXCEPT !.texts[st] = m, !.exc = m] : c \in made, m \in Msgs}

\* ------------------------------------------------------- PhoenixHandler
HandleRet(h) == [NoRet EXCEPT !.kind = "handle", !.handle = h]

\* self.connection = phoenixdb.connect(...); self.is_connected = True; return
connect_open(S) ==
    LET missing == {s \in Running(S) : ~(ConnectArgs \subseteq DOMAIN connection_data)}
        called == Call(S \ missing, "open")
    IN  Stopped(called)
        \cup {[s EXCEPT !.exc = "KeyError"] : s \in missing}
        \cup {LET h == Len(c.handles) + 1
              IN  [c EXCEPT !.handles = Append(@, [open |-> TRUE, closeCalls |-> 0]),
                            !.connection = h,
                            !.is_connected = TRUE,
                            !.ret = HandleRet(h)]
              : c \in Running(called)}

\* connect() without the is_connected test: it opens on every call
connect_always(S) == connect_open(S)

\* connect() setting the flag before the driver call instead of after it
connect_flag_first(S) ==
    Stopped(S)
    \cup {[s EXCEPT !.ret = HandleRet(s.connection)]
          : s \in {r \in Running(S) : r.is_connected = TRUE}}
    \cup connect_open({[r EXCEPT !.is_connected = TRUE]
                       : r \in {q \in Running(S) : q.is_connected # TRUE}})

\* connect(): return the stored handle when connected, else open one
connect(S) ==
    Stopped(S)
    \cup {[s EXCEPT !.ret = HandleRet(s.connection)]
          : s \in {r \in Running(S) : r.is_connected = TRUE}}
    \cup connect_open({r \in Running(S) : r.is_connected # TRUE})

\* disconnect() closing the handle but leaving the flag set
disconnect_close_keeps_flag(S) ==
    LET called == Call({[s EXCEPT !.handles[s.connection].closeCalls = @ + 1]
                        : s \in Running(S)}, "close")
    IN  Stopped(S) \cup Stopped(called)
        \cup {[c EXCEPT !.handles[c.connection].open = FALSE,
                        !.ret = [NoRet EXCEPT !.kind = "bool", !.flag = c.is_connected]]
              : c \in Running(called)}

\* disconnect() clearing the flag before the close call instead of after it
disconnect_close_flag_first(S) ==
    LET called == Call({[s EXCEPT !.handles[s.connection].closeCalls = @ + 1,
                                  !.is_connected = FALSE]
                        : s \in Running(S)}, "close")
    IN  Stopped(S) \cup Stopped(called)
        \cup {[c EXCEPT !.handles[c.connection].open = FALSE,
                        !.ret = [NoRet EXCEPT !.kind = "bool", !.flag = FALSE]]
              : c \in Running(called)}

\* disconnect() clearing the flag without closing the handle
disconnect_close_flag_only(S) ==
    Stopped(S)
    \cup {[s EXCEPT !.is_connected = FALSE,
                    !.ret = [NoRet EXCEPT !.kind = "bool", !.flag = FALSE]]
          : s \in Running(S)}

\* self.connection.close(); self.is_connected = False; return self.is_connected
disconnect_close(S) ==
    LET called == Call({[s EXCEPT !.handles[s.connection].closeCalls = @ + 1]
                        : s \in Running(S)}, "close")
    IN  Stopped(S) \cup Stopped(called)
        \cup {[c EXCEPT !.handles[c.connection].open = FALSE,
                        !.is_connected = FALSE,
                        !.ret = [NoRet EXCEPT !.kind = "bool", !.flag = FALSE]]
              : c \in Running(called)}

\* disconnect() testing the stored handle instead of the flag
disconnect_if_handle(S) ==
    Stopped(S)
    \cup {[s EXCEPT !.ret = [NoRet EXCEPT !.kind = "None"]]
          : s \in {r \in Running(S) : r.connection = NoHandle}}
    \cup disconnect_close({r \in Running(S) : r.connection # NoHandle})

\* disconnect(): bare return when not connected, else close and return the flag
disconnect(S) ==
    Stopped(S)
    \cup {[s EXCEPT !.ret = [NoRet EXCEPT !.kind = "None"]]
          : s \in {r \in Running(S) : r.is_connected = FALSE}}
    \cup disconnect_close({r \in Running(S) : r.is_connected # FALSE})

\* response = StatusResponse(False); need_to_close = self.is_connected is False
check_connection_enter(S) ==
    {[s EXCEPT !.response = [NoRet EXCEPT !.kind = "StatusResponse", !.flag = FALSE],
               !.need_to_close = (s.is_connected = FALSE)]
     : s \in Running(S)}

\* the try/except of check_connection that catches the exception but drops its text
check_connection_try_silent(S) ==
    {IF Raised(c)
     THEN [c EXCEPT !.exc = NoExc]
     ELSE [c EXCEPT !.response.flag = TRUE]
     : c \in connect(Running(S))}

\* the try/except of check_connection: connect(), success or the error text
check_connection_try(S) ==
    {IF Raised(c)
     THEN [c EXCEPT !.exc = NoExc, !.response.error_message = c.exc]
     ELSE [c EXCEPT !.response.flag = TRUE]
     : c \in connect(Running(S))}

\* the finally block without the disconnect of a connection the probe opened
check_connection_finally_keeps(S) ==
    LET fixed == {IF ~c.response.flag /\ c.is_connected = TRUE
                  THEN [c EXCEPT !.is_connected = FALSE] ELSE c
                  : c \in Running(S)}
    IN  Stopped(S) \cup {[c EXCEPT !.ret = c.response] : c \in fixed}

\* the finally block of check_connection, and return response
check_connection_finally(S) ==
    LET closing == {c \in Running(S) : c.response.flag /\ c.need_to_close}
        closed == disconnect(closing) \cup (Running(S) \ closing)
        fixed == {IF ~c.response.flag /\ c.is_connected = TRUE
                  THEN [c EXCEPT !.is_connected = FALSE] ELSE c
                  : c \in Running(closed)}
    IN  Stopped(S) \cup Stopped(closed) \cup {[c EXCEPT !.ret = c.response] : c \in fixed}

\* check_connection(): probe with connect(), undo a connection the probe opened
check_connection(S) ==
    Stopped(S) \cup check_connection_finally(check_connection_try(check_connection_enter(S)))

\* connection.cursor()
cursor(S) ==
    LET called == Call(S, "cursor")
    IN  Stopped(called) \cup {[c EXCEPT !.openCursors = @ + 1] : c \in Running(called)}

\* cursor.close()
cursor_close(S) ==
    LET called == Call(S, "cursor_close")
    IN  Stopped(called) \cup {[c EXCEPT !.openCursors = @ - 1] : c \in Running(called)}

\* cursor.execute(query)
execute(S) == Call(S, "execute")

\* cursor.description, as the driver reports it when the handler reads it
cursor_description(S) ==
    Stopped(S)
    \cup UNION {{[s EXCEPT !.description = d] : d \in DescriptionsOf(s.query)}
               : s \in Running(S)}

\* cursor.fetchall()
fetchall(S) ==
    LET called == Call(S, "fetchall")
    IN  Stopped(called)
        \cup UNION {{[c EXCEPT !.fetched = rows] : rows \in RowSetsOf(c.query)}
                   : c \in Running(called)}

\* the comprehension taking the type token x[1] instead of the name x[0]
ColumnNames_types(description) == [i \in 1..Len(description) |-> description[i][2]]

\* [x[0] for x in cursor.description]
ColumnNames(description) == [i \in 1..Len(description) |-> description[i][1]]

Response(type) == [NoRet EXCEPT !.kind = "Response", !.type = type]

\* Response(RESPONSE_TYPE.TABLE, data_frame=pd.DataFrame(result, columns=[...]))
native_query_table(S) ==
    Stopped(S)
    \cup {[c EXCEPT !.response = [Response("TABLE") EXCEPT
                                     !.columns = ColumnNames(c.description),
                                     !.rows = c.fetched]]
          : c \in Running(cursor_description(S))}

\* connection.commit(); response = Response(RESPONSE_TYPE.OK)
native_query_commit(S) ==
    LET called == Call(S, "commit")
    IN  Stopped(called) \cup {[c EXCEPT !.response = Response("OK")] : c \in Running(called)}

\* the empty-result branch answering OK without the commit
native_query_result_no_commit(S) ==
    Stopped(S)
    \cup native_query_table({s \in Running(S) : s.fetched # <<>>})
    \cup {[c EXCEPT !.response = Response("OK")]
          : c \in {s \in Running(S) : s.fetched = <<>>}}

\* if result := cursor.fetchall(): TABLE, else: commit and OK
native_query_result(S) ==
    Stopped(S)
    \cup native_query_table({s \in Running(S) : s.fetched # <<>>})
    \cup native_query_commit({s \in Running(S) : s.fetched = <<>>})

\* the try/except of native_query: an exception becomes the ERROR response
native_query_try(S) ==
    Stopped(S)
    \cup {IF Raised(c)
          THEN [c EXCEPT !.exc = NoExc,
                         !.response = [Response("ERROR") EXCEPT !.error_message = c.exc]]
          ELSE c
          : c \in native_query_result(fetchall(execute(Running(S))))}

\* cursor.close() only on the paths that did not end in the except clause
native_query_finish_skips_cursor(S) ==
    LET failed == {s \in Running(S) : s.response.type = "ERROR"}
        cursorClosed == cursor_close(S \ failed) \cup failed
        closing == {c \in Running(cursorClosed) : c.need_to_close}
        closed == disconnect(closing) \cup (cursorClosed \ closing)
    IN  Stopped(closed) \cup {[c EXCEPT !.ret = c.response] : c \in Running(closed)}

\* after the try: cursor.close(), disconnect() if need_to_close, return response
native_query_finish(S) ==
    LET cursorClosed == cursor_close(S)
        closing == {c \in Running(cursorClosed) : c.need_to_close}
        closed == disconnect(closing) \cup (cursorClosed \ closing)
    IN  Stopped(closed) \cup {[c EXCEPT !.ret = c.response] : c \in Running(closed)}

\* need_to_close = self.is_connected is False
native_query_enter(S) ==
    {[s EXCEPT !.need_to_close = (s.is_connected = FALSE), !.response = NoRet]
     : s \in Running(S)}

\* native_query(query)
native_query(S) ==
    Stopped(S)
    \cup native_query_finish(native_query_try(cursor(connect(native_query_enter(S)))))

\* renderer.get_string(query, with_failback=True): the text, or an exception
query_render(S) ==
    Stopped(S) \cup Running(S) \cup {[s EXCEPT !.exc = m] : s \in Running(S), m \in Msgs}

\* query(query): render the AST and hand the text to native_query
query(S) == native_query(query_render(S))

\* a finalizer that leaves the connection to the garbage collector
del_nothing(S) == S

\* __del__: disconnect() when still connected; an exception raised in a
\* finalizer is reported by the interpreter and reaches no caller
del(S) ==
    Stopped(S)
    \cup {[s EXCEPT !.exc = NoExc, !.ret = NoRet]
          : s \in disconnect({r \in Running(S) : r.is_connected = TRUE})}
    \cup {r \in Running(S) : r.is_connected # TRUE}

\* ----------------------------------------------------------- pandas
\* position of a column label in df.columns (0: no such column)
ColumnIndex(columns, label) ==
    IF \E i \in 1..Len(columns) : columns[i] = label
    THEN CHOOSE i \in 1..Len(columns) :
            /\ columns[i] = label
            /\ \A j \in 1..(i - 1) : columns[j] # label
    ELSE 0

\* a sequence without its i-th element
Without(seq, i) == [j \in 1..(Len(seq) - 1) |-> IF j < i THEN seq[j] ELSE seq[j + 1]]

RECURSIVE RowsWhereNot(_, _, _)
\* df[df[label] != value]: the rows whose cell in column i is not value, in order
RowsWhereNot(rows, i, value) ==
    IF rows = <<>> THEN <<>>
    ELSE LET rest == RowsWhereNot(Tail(rows), i, value)
         IN  IF Head(rows)[i] # value THEN <<Head(rows)>> \o rest ELSE rest

\* df.drop(label, axis=1)
DropColumn(df, i) ==
    [columns |-> Without(df.columns, i),
     rows |-> [r \in 1..Len(df.rows) |-> Without(df.rows[r], i)]]

\* df.rename(columns={df.columns[0]: label})
RenameFirst(df, label) ==
    [df EXCEPT !.columns = [j \in 1..Len(df.columns) |->
                               IF df.columns[j] = df.columns[1] THEN label ELSE df.columns[j]]]

\* ------------------------------------------------------ introspection
\* a response other than TABLE carries no data frame (data_frame is None)
NoDataFrame(response) == response.type # "TABLE"

\* subscripting None
NoneTypeError == "'NoneType' object is not subscriptable"

\* lines 187-191 on a data frame: filter SYSTEM rows, drop the schema, rename
get_tables_frame(df) ==
    LET schem == ColumnIndex(df.columns, "TABLE_SCHEM")
        filtered == [df EXCEPT !.rows = RowsWhereNot(df.rows, schem, "SYSTEM")]
    IN  RenameFirst(DropColumn(filtered, schem), "table_name")

\* the post-processing of get_tables on the result of native_query
get_tables_filter(S) ==
    Stopped(S)
    \cup {IF NoDataFrame(c.ret)
          THEN [c EXCEPT !.exc = NoneTypeError]
          ELSE LET df == get_tables_frame([columns |-> c.ret.columns, rows |-> c.ret.rows])
               IN  [c EXCEPT !.ret.columns = df.columns, !.ret.rows = df.rows]
          : c \in Running(S)}

\* get_tables()
get_tables(S) ==
    Stopped(S)
    \cup get_tables_filter(native_query({[s EXCEPT !.query = CatalogQuery] : s \in Running(S)}))

\* query = f"SELECT * from {table_name} LIMIT 5"
SampleQuery == "SELECT * from t LIMIT 5"

\* need_to_close = self.is_connected is False
get_columns_enter(S) ==
    {[s EXCEPT !.need_to_close = (s.is_connected = FALSE), !.response = NoRet,
               !.query = SampleQuery]
     : s \in Running(S)}

\* [(x[0], x[1]) for x in cursor.description]
ColumnPairs(description) ==
    [i \in 1..Len(description) |-> <<description[i][1], description[i][2]>>]

\* get_columns handling an empty fetch the way native_query does: commit and OK
get_columns_table_commits(S) ==
    Stopped(S)
    \cup {[c EXCEPT !.response = [Response("TABLE") EXCEPT
                                     !.columns = <<"column_name", "data_type">>,
                                     !.rows = ColumnPairs(c.description)]]
          : c \in Running(cursor_description({s \in Running(S) : s.fetched # <<>>}))}
    \cup native_query_commit({s \in Running(S) : s.fetched = <<>>})

\* Response(RESPONSE_TYPE.TABLE, data_frame=pd.DataFrame([...], columns=[...]))
get_columns_table(S) ==
    Stopped(S)
    \cup {[c EXCEPT !.response = [Response("TABLE") EXCEPT
                                     !.columns = <<"column_name", "data_type">>,
                                     !.rows = ColumnPairs(c.description)]]
          : c \in Running(cursor_description(S))}

\* the try/except of get_columns: execute, fetch, TABLE of the description; ERROR
get_columns_try(S) ==
    Stopped(S)
    \cup {IF Raised(c)
          THEN [c EXCEPT !.exc = NoExc,
                         !.response = [Response("ERROR") EXCEPT !.error_message = c.exc]]
          ELSE c
          : c \in get_columns_table(fetchall(execute(Running(S))))}

\* after the try: cursor.close(), disconnect() if need_to_close, return response
get_columns_finish(S) ==
    LET cursorClosed == cursor_close(S)
        closing == {c \in Running(cursorClosed) : c.need_to_close}
        closed == disconnect(closing) \cup (cursorClosed \ closing)
    IN  Stopped(closed) \cup {[c EXCEPT !.ret = c.response] : c \in Running(closed)}

\* get_columns(table_name)
get_columns(S) ==
    Stopped(S)
    \cup get_columns_finish(get_columns_try(cursor(connect(get_columns_enter(S)))))

\* ---------------------------------------------------------------- actions
RECURSIVE FailedCloses(_)
\* the close() calls on connection handles that raised: every call but the one
\* that closed the handle
FailedCloses(hs) ==
    IF hs = <<>> THEN 0
    ELSE (Head(hs).closeCalls - (IF Head(hs).open THEN 0 ELSE 1)) + FailedCloses(Tail(hs))

WithinBounds(s) ==
    /\ Len(s.handles) <= MaxHandles
    /\ FailedCloses(s.handles) + s.openCursors <= MaxCloseFaults

\* The call returns (or raises) to its caller.  last keeps what the caller and
\* the driver saw of it: the state at entry, the result, the driver calls made
\* (calls), the ones that raised and their texts (failed, texts), the cursors
\* it left open (leaked), and whether the call before it was a call of the
\* same method that returned (again).
Return(op, s) ==
    /\ WithinBounds(s)
    /\ connection' = s.connection
    /\ is_connected' = s.is_connected
    /\ handles' = s.handles
    /\ openCursors' = s.openCursors
    /\ UNCHANGED <<connection_data, supplied>>
    /\ last' = [op |-> op,
                pre_connected |-> is_connected,
                pre_connection |-> connection,
                raised |-> Raised(s),
                exc |-> s.exc,
                ret |-> IF Raised(s) THEN [NoRet EXCEPT !.kind = "raise"] ELSE s.ret,
                calls |-> s.calls,
                failed |-> {st \in Steps : s.texts[st] # NoExc},
                texts |-> s.texts,
                leaked |-> s.openCursors - openCursors,
                fetched |-> s.fetched,
                description |-> s.description,
                again |-> (last.op = op /\ ~last.raised)]

\* the handler has not been discarded
Alive == last.op # "__del__"

Connect == Alive /\ \E s \in connect({Enter}) : Return("connect", s)

Disconnect == Alive /\ \E s \in disconnect({Enter}) : Return("disconnect", s)

CheckConnection == Alive /\ \E s \in check_connection({Enter}) : Return("check_connection", s)

NativeQuery == Alive /\ \E s \in native_query({Enter}) : Return("native_query", s)

GetTables == Alive /\ \E s \in get_tables({Enter}) : Return("get_tables", s)

GetColumns == Alive /\ \E s \in get_columns({Enter}) : Return("get_columns", s)

Query == Alive /\ \E s \in query({Enter}) : Return("query", s)

\* the handler instance is discarded
Del == Alive /\ \E s \in del({Enter}) : Return("__del__", s)

\* __init__: the caller's mapping completed in place, no connection, not connected
Init ==
    /\ supplied \in Configs
    /\ connection_data = init_connection_data(supplied)
    /\ connection = NoHandle
    /\ is_connected = FALSE
    /\ handles = <<>>
    /\ openCursors = 0
    /\ last = [op |-> "__init__", pre_connected |-> FALSE, pre_connection |-> NoHandle,
               raised |-> FALSE, exc |-> NoExc, ret |-> NoRet, calls |-> NoCalls,
               failed |-> {}, texts |-> NoTexts, leaked |-> 0,
               fetched |-> <<>>, description |-> <<>>, again |-> FALSE]

Next ==
    \/ Connect
    \/ Disconnect
    \/ CheckConnection
    \/ NativeQuery
    \/ GetTables
    \/ GetColumns
    \/ Query
    \/ Del

Spec == Init /\ [][Next]_vars

\* ----------------------------------------------------------- properties
\* what the last call did with the driver
Failed(st) == st \in last.failed
Opened == last.calls["open"] = 1 /\ ~Failed("open")
CursorCreated == last.calls["cursor"] = 1 /\ ~Failed("cursor")
FetchReturned == last.calls["fetchall"] = 1 /\ ~Failed("fetchall")
HoldsOpenHandle == connection # NoHandle /\ handles[connection].open

\* the connected state found at entry is the state at exit, untouched
LeftConnected ==
    /\ is_connected = TRUE
    /\ connection = last.pre_connection
    /\ handles[connection].open
    /\ last.calls["open"] = 0
    /\ last.calls["close"] = 0

\* C1: native_query never raises; when a driver call it makes fails, at any
\* step, it returns an ERROR response carrying the text of that exception.
C1_NeverRaises ==
    last.op = "native_query" =>
        /\ ~last.raised
        /\ \A st \in Steps : Failed(st) =>
              /\ last.ret.type = "ERROR"
              /\ last.ret.error_message \in {last.texts[f] : f \in last.failed}

\* C2: native_query leaves the connection state as it found it: a handler
\* that was connected keeps the same open handle with no driver open or
\* close; a handler that was disconnected has the connection the call
\* opened closed again and is_connected false, also after a driver failure
\* (stated here for the calls whose connection close, if reached, returned).
C2_RestoresConnectionState ==
    last.op = "native_query" =>
        /\ last.pre_connected => LeftConnected
        /\ (~last.pre_connected /\ Opened /\ ~Failed("close")) =>
              /\ is_connected = FALSE
              /\ ~HoldsOpenHandle

\* C3: a check_connection that returns success leaves the connection state
\* as it was: connected before, the same handle is still open and the probe
\* did no driver open or close; disconnected before, the connection the
\* probe opened is closed again and is_connected is false.
C3_ProbeRestoresState ==
    (last.op = "check_connection" /\ ~last.raised /\ last.ret.flag = TRUE) =>
        IF last.pre_connected
        THEN LeftConnected
        ELSE /\ is_connected = FALSE
             /\ Opened
             /\ connection = Len(handles)
             /\ ~handles[connection].open
             /\ handles[connection].closeCalls = 1

C3_Witness ==
    /\ last.op = "check_connection"
    /\ ~last.raised
    /\ last.ret.flag = TRUE
    /\ ~last.pre_connected
    /\ last.calls["close"] = 1

\* C4: when the driver's open fails inside check_connection, the call
\* returns (does not raise) a status with success false and the exception's
\* text as error_message, and the handler is disconnected with no open
\* handle held.
C4_ProbeOpenFailure ==
    (last.op = "check_connection" /\ Failed("open")) =>
        /\ ~last.raised
        /\ last.ret.kind = "StatusResponse"
        /\ last.ret.flag = FALSE
        /\ last.ret.error_message = last.texts["open"]
        /\ is_connected = FALSE
        /\ ~HoldsOpenHandle

C4_Witness ==
    /\ last.op = "check_connection"
    /\ Failed("open")
    /\ last.ret.error_message = "e2"
    /\ connection # NoHandle

C6_ConnectFailureKeepsState ==
    (last.op = "connect" /\ Failed("open")) =>
        /\ last.raised
        /\ last.exc = last.texts["open"]
        /\ is_connected = last.pre_connected
        /\ connection = last.pre_connection

C6_Witness ==
    /\ last.op = "connect"
    /\ Failed("open")
    /\ last.raised
    /\ connection # NoHandle

\* C7: disconnect() is idempotent: a disconnect() that returns leaves the
\* handler disconnected, and a disconnect() on a handler that is not
\* connected (so every disconnect() that follows one that returned) makes
\* no driver call: the handle's close is called by the first only.
C7_DisconnectIdempotent ==
    last.op = "disconnect" =>
        /\ ~last.raised => is_connected = FALSE
        /\ ~last.pre_connected =>
              /\ ~last.raised
              /\ last.calls = NoCalls
              /\ connection = last.pre_connection
        /\ last.again => ~last.pre_connected /\ last.calls["close"] = 0

C7_Witness ==
    /\ last.op = "disconnect"
    /\ last.again
    /\ connection # NoHandle
    /\ handles[connection].closeCalls = 1
    /\ ~handles[connection].open

\* C8: disconnect() returns the resulting connected flag, the boolean false,
\* both when the handler was connected and when it was not.
C8_DisconnectReturnsFlag ==
    (last.op = "disconnect" /\ ~last.raised) =>
        /\ last.ret.kind = "bool"
        /\ last.ret.flag = is_connected

\* C9: the cursor native_query creates has close called on it exactly once,
\* whatever the outcome of the statement (TABLE, OK, or ERROR after execute,
\* fetchall or commit raised); when native_query returns, no cursor it
\* created is open, and a cursor is left open only by a close call that
\* itself raised.
C9_CursorClosedOnce ==
    last.op = "native_query" =>
        /\ last.calls["cursor"] <= 1
        /\ CursorCreated => last.calls["cursor_close"] = 1
        /\ ~CursorCreated => last.calls["cursor_close"] = 0
        /\ ~last.raised => CursorCreated /\ last.leaked = 0
        /\ last.leaked # 0 => Failed("cursor_close")

C9_Witness ==
    /\ last.op = "native_query"
    /\ last.ret.type = "ERROR"
    /\ Failed("fetchall")
    /\ last.calls["cursor_close"] = 1
    /\ last.leaked = 0

\* C10: when fetchall returns no rows native_query calls commit exactly once
\* and, the driver calls having returned, answers OK; when fetchall returns
\* at least one row it never calls commit and answers TABLE.
C10_CommitOnEmptyFetch ==
    last.op = "native_query" =>
        /\ (FetchReturned /\ last.fetched = <<>>) =>
              /\ last.calls["commit"] = 1
              /\ last.failed = {} => last.ret.type = "OK"
        /\ (FetchReturned /\ last.fetched # <<>>) =>
              /\ last.calls["commit"] = 0
              /\ ~last.raised => last.ret.type = "TABLE"
        /\ ~FetchReturned => last.calls["commit"] = 0
        /\ last.ret.type = "OK" => FetchReturned /\ last.fetched = <<>>
        /\ last.ret.type = "TABLE" => FetchReturned /\ last.fetched # <<>>

C10_Witness ==
    /\ last.op = "native_query"
    /\ last.ret.type = "OK"
    /\ last.fetched = <<>>
    /\ last.calls["commit"] = 1

\* C11: when fetchall returns rows, native_query answers TABLE with the
\* column names being the first elements of cursor.description in
\* description order, and the rows being the fetched rows in the driver's
\* order (so the row count is the fetched row count).
C11_TableFromDriver ==
    (last.op = "native_query" /\ ~last.raised /\ FetchReturned /\ last.fetched # <<>>) =>
        /\ last.ret.type = "TABLE"
        /\ Len(last.ret.columns) = Len(last.description)
        /\ \A i \in 1..Len(last.description) :
              last.ret.columns[i] = last.description[i][1]
        /\ Len(last.ret.rows) = Len(last.fetched)
        /\ \A i \in 1..Len(last.fetched) : last.ret.rows[i] = last.fetched[i]

C11_Witness ==
    /\ last.op = "native_query"
    /\ last.ret.type = "TABLE"
    /\ last.ret.columns = <<"name", "id">>
    /\ last.ret.rows = << <<"2", "b">>, <<"1", "a">> >>

\* the statement of the last call failed inside the try block and nothing
\* after it did: native_query answered ERROR
StatementFailed ==
    /\ Failed("execute") \/ Failed("fetchall") \/ Failed("commit")
    /\ ~Failed("cursor_close")
    /\ ~Failed("close")

\* C12: when the catalog query errors inside native_query, get_tables returns
\* that ERROR response, with native_query's error message, and does not
\* raise or replace it.
C12_GetTablesPassesError ==
    (last.op = "get_tables" /\ StatementFailed) =>
        /\ ~last.raised
        /\ last.ret.type = "ERROR"
        /\ last.ret.error_message \in {last.texts[f] : f \in last.failed}

\* C13: for every sequence of catalog rows the driver returns, get_tables
\* answers TABLE with the single column table_name and, in the driver's
\* order, the table names of the rows whose schema is not SYSTEM.
C13_GetTablesFiltersSystem ==
    (last.op = "get_tables" /\ FetchReturned /\ last.failed = {}) =>
        /\ ~last.raised
        /\ last.ret.type = "TABLE"
        /\ last.ret.columns = <<"table_name">>
        /\ \A i \in 1..Len(last.ret.rows) : Len(last.ret.rows[i]) = 1
        /\ \A i \in 1..Len(last.ret.rows) :
              \E j \in 1..Len(last.fetched) :
                 last.fetched[j] = <<last.ret.rows[i][1], last.fetched[j][2]>>
                 /\ last.fetched[j][2] # "SYSTEM"
        /\ Len(last.ret.rows) =
              Cardinality({j \in 1..Len(last.fetched) : last.fetched[j][2] # "SYSTEM"})
        /\ \A i, k \in 1..Len(last.ret.rows) : i < k =>
              \E j, l \in 1..Len(last.fetched) :
                 /\ j < l
                 /\ last.fetched[j][1] = last.ret.rows[i][1]
                 /\ last.fetched[l][1] = last.ret.rows[k][1]

\* C13 for the catalogs that have at least one row
C13_NonEmptyCatalog ==
    last.fetched # <<>> => C13_GetTablesFiltersSystem

\* C14: get_tables and get_columns borrow the connection like native_query:
\* on a connected handler the same handle stays open and is_connected true;
\* on a disconnected handler the one connection the call opened and its
\* cursor are closed and is_connected is false when the call ends, on the
\* success path and on the error path (stated here for the calls whose
\* connection close, if reached, returned).
C14_IntrospectionBorrows ==
    last.op \in {"get_tables", "get_columns"} =>
        /\ last.calls["open"] <= 1
        /\ last.pre_connected => LeftConnected
        /\ (~last.pre_connected /\ Opened /\ ~Failed("close")) =>
              /\ is_connected = FALSE
              /\ ~HoldsOpenHandle
              /\ last.leaked = 0

\* C15: get_columns answers TABLE with the columns column_name and data_type
\* and one row (name, type token) per entry of cursor.description, in
\* description order, whatever rows were fetched (none included), and it
\* never calls commit.
C15_ColumnsFromDescription ==
    last.op = "get_columns" =>
        /\ last.calls["commit"] = 0
        /\ (FetchReturned /\ ~last.raised) =>
              /\ last.ret.type = "TABLE"
              /\ last.ret.columns = <<"column_name", "data_type">>
              /\ Len(last.ret.rows) = Len(last.description)
              /\ \A i \in 1..Len(last.description) :
                    last.ret.rows[i] = <<last.description[i][1], last.description[i][2]>>

C15_Witness ==
    /\ last.op = "get_columns"
    /\ FetchReturned
    /\ last.fetched = <<>>
    /\ last.ret.type = "TABLE"
    /\ last.ret.rows = << <<"name", "VARCHAR">>, <<"id", "INTEGER">> >>

\* C16: the handler never mutates the caller's configuration: after the
\* construction and after any operations the mapping has exactly the keys
\* and values it had before the construction.
C16_ConfigNeverMutated == connection_data = supplied

\* C17: when the handler is discarded, disconnect is invoked exactly when it
\* is still connected: a connected handler has close called on its handle
\* once and, the close having returned, the handle is closed and the flag
\* false; a handler that is not connected makes no driver call.
C17_TeardownDisconnects ==
    last.op = "__del__" =>
        /\ ~last.raised
        /\ last.pre_connected =>
              /\ last.calls = [NoCalls EXCEPT !["close"] = 1]
              /\ connection = last.pre_connection
              /\ ~Failed("close") => is_connected = FALSE /\ ~handles[connection].open
        /\ ~last.pre_connected =>
              /\ last.calls = NoCalls
              /\ is_connected = FALSE
              /\ connection = last.pre_connection

C17_Witness ==
    /\ last.op = "__del__"
    /\ last.pre_connected
    /\ last.calls["close"] = 1
    /\ is_connected = FALSE
    /\ ~handles[connection].open

\* C18: between operations, is_connected is true if and only if the stored
\* connection handle is not None and has not been closed.
C18_FlagIffOpenHandle == (is_connected = TRUE) <=> HoldsOpenHandle

\* a close call raised: the handle stays open and the flag stays true
C18_Witness ==
    /\ last.op \in {"disconnect", "native_query", "check_connection"}
    /\ Failed("close")
    /\ is_connected = TRUE
    /\ HoldsOpenHandle

\* the handles this instance opened and has not closed
OpenHandles == {h \in 1..Len(handles) : handles[h].open}

\* C19: at most one handle opened by the handler is open at any time.
C19_AtMostOneOpenHandle == Cardinality(OpenHandles) <= 1

\* a second handle is opened after the first was closed
C19_Witness ==
    /\ Len(handles) >= 2
    /\ ~handles[1].open
    /\ handles[2].open
    /\ last.calls["open"] = 1

\* C20 as stated: no handle ever receives more than one close call.
C20_CloseAtMostOnce == \A h \in 1..Len(handles) : handles[h].closeCalls <= 1

\* a call leaves alone every handle whose close has returned
ClosedHandlesUntouched ==
    \A h \in 1..Len(handles) : ~handles[h].open => handles'[h] = handles[h]

\* connect on a disconnected handler returns a handle opened by this call
ConnectReturnsFreshHandle ==
    (last.op = "connect" /\ ~last.pre_connected /\ ~last.raised) =>
        /\ last.ret = HandleRet(Len(handles))
        /\ connection = Len(handles)
        /\ handles[connection] = [open |-> TRUE, closeCalls |-> 0]
        /\ last.calls["open"] = 1

\* C20: once a close call on a handle has returned, the handler never calls
\* close on that handle again (close is repeated only on a handle whose
\* earlier close call raised), and connect on a disconnected handler returns
\* a newly opened handle, never one that was already closed.
C20_NoCloseAfterClosed ==
    /\ [][ClosedHandlesUntouched]_vars
    /\ []ConnectReturnsFreshHandle

\* a handle has been closed by its second close call, the first having raised,
\* and a later disconnect, finding the flag false, has left it alone
C20_Witness ==
    /\ last.op = "disconnect"
    /\ ~last.pre_connected
    /\ last.calls = NoCalls
    /\ connection # NoHandle
    /\ handles[connection] = [open |-> FALSE, closeCalls |-> 2]

====
